---- MODULE Spec2Model ----
(***************************************************************************)
(* Model of src/src/arquivo.py: a one-shot script that loads a sheet,      *)
(* resolves the date column, normalises the dates, cleans and sorts the    *)
(* rows, fits a SARIMA model, derives the number of months to forecast and *)
(* writes the rounded forecasts into fixed cells of the workbook.          *)
(*                                                                         *)
(* Text is modelled as a sequence of one-character strings ("E^" and "e^"  *)
(* stand for the single code points E-circumflex and e-circumflex).  A     *)
(* date is the integer (year*12 + month-1)*31 + (day-1); NaT is -1.  A raw *)
(* cell of the date column is the sequence of its "/"-separated numeric    *)
(* fields: << >> is an empty cell (NaN), a field of -1 is non-numeric text.*)
(* A forecast value is an integer number of halves (5 stands for 2.5).     *)
(*                                                                         *)
(* The file path of line 12 is taken as an opaque, valid path: as written, *)
(* its literal holds the escape \U followed by no hexadecimal digits,      *)
(* which Python 3 rejects when it compiles the file.  The model describes  *)
(* the script once that literal is written as a raw string.  pd.to_datetime*)
(* is modelled cell by cell, SARIMAX.fit and the openpyxl calls as calls   *)
(* that either return or raise.                                            *)
(***************************************************************************)
EXTENDS Integers, Sequences, FiniteSets, TLC

\* ------------------------------------------------------------------------
\* Bounds of the model
\* ------------------------------------------------------------------------
MaxCols == 2
MaxRows == 2

\* ------------------------------------------------------------------------
\* Program constants
\* ------------------------------------------------------------------------
mes_final_desejado == 12
coluna_alvo == 6
\* a target list one row short
linhas_alvo_three == <<11, 12, 13>>
linhas_alvo == <<11, 12, 13, 14>>
aba_alvo == "graficos"
aba_original == "Plan1"

NaT == -1
NaN == -1000
Unassigned == -2000
NoQnt == -1
Unbound == <<"<unbound>">>
NoBook == [sheets |-> {}, cells |-> << >>, valid |-> FALSE]

\* ------------------------------------------------------------------------
\* Text helpers: str.strip, str.lower, the `in` operator on strings
\* ------------------------------------------------------------------------
LowerChar(c) ==
    CASE c = "A" -> "a" [] c = "D" -> "d" [] c = "E" -> "e" [] c = "H" -> "h"
      [] c = "L" -> "l" [] c = "M" -> "m" [] c = "N" -> "n" [] c = "O" -> "o"
      [] c = "Q" -> "q" [] c = "R" -> "r" [] c = "S" -> "s" [] c = "T" -> "t"
      [] c = "V" -> "v" [] c = "E^" -> "e^"
      [] OTHER -> c

Lower(s) == [k \in 1..Len(s) |-> LowerChar(s[k])]

RECURSIVE LStrip(_)
LStrip(s) == IF s # << >> /\ Head(s) = " " THEN LStrip(Tail(s)) ELSE s

RECURSIVE RStrip(_)
RStrip(s) ==
    IF s # << >> /\ s[Len(s)] = " " THEN RStrip(SubSeq(s, 1, Len(s) - 1)) ELSE s

Strip(s) == RStrip(LStrip(s))

Contains(sub, s) ==
    \E k \in 0..(Len(s) - Len(sub)) : SubSeq(s, k + 1, k + Len(sub)) = sub

StrData == <<"D", "a", "t", "a">>
StrQNT == <<"Q", "N", "T">>

\* line 41: the heuristic test on the lowercased column name
HeuristicMatch(c) ==
    LET cl == Lower(c) IN
        \/ Contains(<<"d", "a", "t", "a">>, cl)
        \/ Contains(<<"m", "e", "s">>, cl)
        \/ Contains(<<"m", "e^", "s">>, cl)
        \/ Contains(<<"m", "o", "n", "t", "h">>, cl)
        \/ Contains(<<"d", "a", "t", "e">>, cl)

InColumns(name, cols) == \E k \in 1..Len(cols) : cols[k] = name

\* lines 39-43: the for loop; falls off the end leaving date_col unassigned
RECURSIVE ForLoop(_, _)
ForLoop(cols, k) ==
    IF k > Len(cols) THEN Unbound
    ELSE IF HeuristicMatch(cols[k]) THEN cols[k]
    ELSE ForLoop(cols, k + 1)

\* the loop alone, without the test for the exact name
DetectDateColFirstMatch(cols) == ForLoop(cols, 1)

\* lines 36-43
DetectDateCol(cols) ==
    IF InColumns(StrData, cols) THEN StrData ELSE ForLoop(cols, 1)

\* line 32
StripColumns(cols) == [k \in 1..Len(cols) |-> Strip(cols[k])]

\* ------------------------------------------------------------------------
\* Dates: pd.to_datetime on one cell
\* ------------------------------------------------------------------------
MkDate(yr, mo, dy) == (yr * 12 + (mo - 1)) * 31 + (dy - 1)

\* Timestamp.month
MonthOf(t) == ((t \div 31) % 12) + 1

IsYear(v) == v \in 1678..2261
IsMonth(v) == v \in 1..12
IsDay(v) == v \in 1..31

\* line 54, format='%m/%Y', errors='raise': does this cell raise?
\* (an empty cell does not raise: it becomes NaT)
StrictRaises(raw) ==
    ~ (\/ raw = << >>
       \/ (Len(raw) = 2 /\ IsMonth(raw[1]) /\ IsYear(raw[2])))

\* line 54: the value a cell that does not raise is given
StrictDate(raw) == IF raw = << >> THEN NaT ELSE MkDate(raw[2], raw[1], 1)

\* line 57, dayfirst=True, errors='coerce': day first is preferred, month
\* first is the parser's second reading, anything else becomes NaT
LenientDate(raw) ==
    IF Len(raw) = 2 /\ IsMonth(raw[1]) /\ IsYear(raw[2])
        THEN MkDate(raw[2], raw[1], 1)
    ELSE IF Len(raw) = 3 /\ IsYear(raw[3]) /\ IsDay(raw[1]) /\ IsMonth(raw[2])
        THEN MkDate(raw[3], raw[2], raw[1])
    ELSE IF Len(raw) = 3 /\ IsYear(raw[3]) /\ IsMonth(raw[1]) /\ IsDay(raw[2])
        THEN MkDate(raw[3], raw[1], raw[2])
    ELSE NaT

\* a strict parse that also rejects an empty cell
ToDatetimeStrictRaisesOnEmpty(rs) ==
    \E k \in 1..Len(rs) : rs[k].raw = << >> \/ StrictRaises(rs[k].raw)

\* line 54 applied to the whole column: raises as soon as one cell raises
ToDatetimeStrictRaises(rs) == \E k \in 1..Len(rs) : StrictRaises(rs[k].raw)

ToDatetimeStrict(rs) ==
    [k \in 1..Len(rs) |-> [id |-> k, Data |-> StrictDate(rs[k].raw), QNT |-> rs[k].qnt]]

ToDatetimeLenient(rs) ==
    [k \in 1..Len(rs) |-> [id |-> k, Data |-> LenientDate(rs[k].raw), QNT |-> rs[k].qnt]]

\* line 58: df['Data'].isna().all()
IsNaAll(d) == \A k \in 1..Len(d) : d[k].Data = NaT

\* ------------------------------------------------------------------------
\* Cleaner/Sorter
\* ------------------------------------------------------------------------
\* the order sort_values puts two keys in: ascending, NaT last
KeyBefore(a, b) == IF a = NaT THEN b = NaT ELSE (b = NaT \/ a <= b)

\* line 66: the frames sort_values(by='Data') may return (the default sort
\* is not stable, so rows of equal date may come out in either order)
SortValues(d) ==
    LET n == Len(d)
        perms == {p \in [1..n -> 1..n] : \A a, b \in 1..n : a # b => p[a] # p[b]}
    IN  {[k \in 1..n |-> d[p[k]]] : p \in
            {q \in perms : \A k \in 1..(n - 1) : KeyBefore(d[q[k]].Data, d[q[k + 1]].Data)}}

\* line 67: dropna(subset=['QNT'])
RECURSIVE DropNa(_)
DropNa(d) ==
    IF d = << >> THEN << >>
    ELSE IF Head(d).QNT = NoQnt THEN DropNa(Tail(d))
    ELSE <<Head(d)>> \o DropNa(Tail(d))

\* line 110: y.index.max() skips NaT and is NaT when nothing is left
RECURSIVE IndexMax(_)
IndexMax(s) ==
    IF s = << >> THEN NaT
    ELSE LET rest == IndexMax(Tail(s))
             h == Head(s).Data
         IN  IF h = NaT THEN rest
             ELSE IF rest = NaT THEN h
             ELSE IF h >= rest THEN h ELSE rest

\* the count taken inclusive of the last observed month
NumPrevisoesInclusive(ultima_data) ==
    IF ultima_data = NaT THEN NaN ELSE mes_final_desejado - MonthOf(ultima_data) + 1

\* lines 113-115
NumPrevisoes(ultima_data) ==
    IF ultima_data = NaT THEN NaN ELSE mes_final_desejado - MonthOf(ultima_data)

\* ------------------------------------------------------------------------
\* Forecast values and rounding
\* ------------------------------------------------------------------------
\* line 133: round() of a value given in halves: to the nearest integer,
\* ties to the even one
PyRound(h) ==
    IF h % 2 = 0 THEN h \div 2
    ELSE LET lo == (h - 1) \div 2 IN IF lo % 2 = 0 THEN lo ELSE lo + 1

\* lines 132-139
RoundAll(series) == [k \in 1..Len(series) |-> PyRound(series[k])]

\* ------------------------------------------------------------------------
\* Workbook: the sheets it has and its non-empty cells
\* ------------------------------------------------------------------------
\* line 186: sheet.cell(row, column).value = v
SetCell(wb, sheet, row, col, v) ==
    LET key == <<sheet, row, col>> IN
    [wb EXCEPT !.cells = [c \in (DOMAIN wb.cells) \cup {key} |->
                              IF c = key THEN v ELSE wb.cells[c]]]

\* line 169
CreateSheet(wb, sheet) == [wb EXCEPT !.sheets = wb.sheets \cup {sheet}]

\* the target rows taken from the end of the list
TargetRowReversed(k) == linhas_alvo[Len(linhas_alvo) - k]

\* lines 146-148 and 176
TargetRow(k) == linhas_alvo[k + 1]

\* a test that only rejects too many forecasts
MismatchTooMany(previsoes, linhas) == Len(previsoes) > Len(linhas)

\* line 154
Mismatch(previsoes, linhas) == Len(previsoes) # Len(linhas)

\* a loop that stops one element early
LoopDoneEarly(k, previsoes) == k >= Len(previsoes) - 1

\* line 173: the for loop over previsoes_finais has consumed every element
LoopDone(k, previsoes) == k = Len(previsoes)

\* ------------------------------------------------------------------------
\* Inputs
\* ------------------------------------------------------------------------
ColNames ==
    { StrData,
      <<" ", "D", "a", "t", "a">>,
      <<"d", "a", "t", "a">>,
      <<"D", "A", "T", "E">>,
      <<"M", "e", "s">>,
      <<"M", "E^", "S">>,
      <<"M", "o", "n", "t", "h">>,
      StrQNT,
      <<"V", "a", "l", "o", "r">>,
      <<"A", "n", "o", " ">> }

\* header rows of up to MaxCols cells whose stripped names differ
Headers(names) ==
    {h \in UNION {[1..n -> names] : n \in 1..MaxCols} :
        \A a, b \in 1..Len(h) : a # b => Strip(h[a]) # Strip(h[b])}

FewHeaders ==
    { <<StrData, StrQNT>>,
      <<<<"M", "e", "s">>, StrQNT>>,
      <<StrQNT, <<"V", "a", "l", "o", "r">>>> }

Qnts == {NoQnt, 40}

RawCells ==
    { << >>, <<-1>>, <<13, 2025>>, <<15, 8, 2025>>, <<3, 4, 2025>>, <<8, 15, 2025>>,
      <<12, 2024>>, <<2, 2025>>, <<8, 2025>>, <<12, 2025>> }

Tables(cells) ==
    UNION {[1..n -> [raw : cells, qnt : Qnts]] : n \in 0..MaxRows}

FewTables ==
    { <<[raw |-> <<8, 2025>>, qnt |-> 40]>>,
      <<[raw |-> <<-1>>, qnt |-> 40]>> }

\* a table whose last observed month is m
MonthTables ==
    {<<[raw |-> <<12, 2024>>, qnt |-> 40], [raw |-> <<m, 2025>>, qnt |-> 40]>> : m \in 1..12}

\* workbooks: without the target sheet, with it empty, with it filled
BookNoSheet ==
    [valid |-> TRUE, sheets |-> {aba_original},
     cells |-> [c \in {<<aba_original, 11, 6>>} |-> 7]]

BookEmptySheet ==
    [valid |-> TRUE, sheets |-> {aba_original, aba_alvo},
     cells |-> [c \in {<<aba_original, 11, 6>>} |-> 7]]

BookFullSheet ==
    [valid |-> TRUE, sheets |-> {aba_original, aba_alvo},
     cells |-> [c \in {<<aba_original, 11, 6>>, <<aba_alvo, 11, 5>>}
                        \cup {<<aba_alvo, r, 6>> : r \in 10..15} |-> 100 + c[2]]]

Books == {BookNoSheet, BookEmptySheet, BookFullSheet}

Corrupt == [valid |-> FALSE, sheets |-> {}, cells |-> << >>]

\* the series get_forecast(steps=n) may return: n values, in halves
ForecastBases == {0, 1, 2}
ForecastSeries(n) == {[k \in 1..n |-> b + 3 * k] : b \in ForecastBases}

\* ------------------------------------------------------------------------
\* State
\* ------------------------------------------------------------------------
VARIABLES
    pc,               \* position of the script
    header,           \* the header row of sheet aba_dados_limpos on disk
    table,            \* its data rows: the cell of the date column and QNT
    disk0,            \* the workbook file when the run starts
    disk,             \* the workbook file now
    columns,          \* df.columns
    date_col,         \* date_col
    df,               \* df, as rows [id, Data, QNT]
    path,             \* which to_datetime call produced df['Data']
    y,                \* y
    num_previsoes,    \* num_previsoes
    steps,            \* the steps arguments get_forecast was called with
    previsoes_series, \* previsoes_series, in halves
    previsoes_finais, \* the 'previsao' fields of previsoes_finais
    workbook,         \* the workbook object in memory
    i,                \* the loop index of the write loop
    assigned,         \* the cell assignments made so far, as <<sheet, row, col>>
    saves,            \* number of calls of workbook.save
    printed,          \* the diagnostics printed
    stages,           \* the stages entered, in order
    outcome           \* how the run ended

vars == <<pc, header, table, disk0, disk, columns, date_col, df, path, y,
          num_previsoes, steps, previsoes_series, previsoes_finais, workbook, i,
          assigned, saves, printed, stages, outcome>>

inputs == <<header, table, disk0>>
forecasts == <<previsoes_series, previsoes_finais>>

InitProgram ==
    /\ pc = "load"
    /\ disk = disk0
    /\ columns = << >>
    /\ date_col = Unbound
    /\ df = << >>
    /\ path = "none"
    /\ y = << >>
    /\ num_previsoes = Unassigned
    /\ steps = << >>
    /\ previsoes_series = << >>
    /\ previsoes_finais = << >>
    /\ workbook = NoBook
    /\ i = 0
    /\ assigned = << >>
    /\ saves = 0
    /\ printed = {}
    /\ stages = << >>
    /\ outcome = "running"

\* the inputs vary one at a time: the header row, the data rows, the last
\* observed month together with the workbook
Init ==
    /\ \/ header \in Headers(ColNames) /\ table \in FewTables /\ disk0 = BookFullSheet
       \/ header = <<StrData, StrQNT>> /\ table \in Tables(RawCells) /\ disk0 = BookFullSheet
       \/ header \in FewHeaders /\ table \in MonthTables /\ disk0 \in Books
    /\ InitProgram

Exit(how) == pc' = "done" /\ outcome' = how

\* lines 24-33
Load ==
    /\ pc = "load"
    /\ stages' = Append(stages, "load")
    /\ \E ok \in BOOLEAN :
        IF ok
        THEN /\ columns' = StripColumns(header)
             /\ printed' = printed \cup {"columns"}
             /\ pc' = "resolve"
             /\ outcome' = outcome
        ELSE /\ printed' = printed \cup {"load_error"}
             /\ Exit("load_error")
             /\ columns' = columns
    /\ UNCHANGED <<inputs, disk, date_col, df, path, y, num_previsoes, steps,
                   forecasts, workbook, i, assigned, saves>>

\* lines 35-49.  When nothing matches, date_col was never assigned and the
\* test of line 45 raises NameError; lines 46-49 run only for an empty name.
Resolve ==
    /\ pc = "resolve"
    /\ stages' = Append(stages, "resolve")
    /\ date_col' = DetectDateCol(columns)
    /\ IF date_col' = Unbound
       THEN /\ Exit("NameError")
            /\ printed' = printed \cup {"traceback"}
       ELSE IF date_col' = << >>
       THEN /\ Exit("config_error")
            /\ printed' = printed \cup {"config_error"}
       ELSE /\ pc' = "normalize"
            /\ UNCHANGED <<outcome, printed>>
    /\ UNCHANGED <<inputs, disk, columns, df, path, y, num_previsoes, steps,
                   forecasts, workbook, i, assigned, saves>>

\* lines 51-63
Normalize ==
    /\ pc = "normalize"
    /\ stages' = Append(stages, "normalize")
    /\ IF ~ ToDatetimeStrictRaises(table)
       THEN /\ df' = ToDatetimeStrict(table)
            /\ path' = "strict"
            /\ pc' = "clean"
            /\ UNCHANGED <<outcome, printed>>
       ELSE /\ df' = ToDatetimeLenient(table)
            /\ path' = "lenient"
            /\ IF IsNaAll(df')
               THEN /\ printed' = printed \cup {"date_error"}
                    /\ Exit("date_error")
               ELSE /\ printed' = printed \cup {"lenient_warning"}
                    /\ pc' = "clean"
                    /\ outcome' = outcome
    /\ UNCHANGED <<inputs, disk, columns, date_col, y, num_previsoes, steps,
                   forecasts, workbook, i, assigned, saves>>

\* lines 65-76; df has no 'QNT' column: dropna raises KeyError
Clean ==
    /\ pc = "clean"
    /\ stages' = Append(stages, "clean")
    /\ IF InColumns(StrQNT, columns)
       THEN /\ \E sorted \in SortValues(df) :
                /\ df' = DropNa(sorted)
                /\ y' = df'
            /\ pc' = "fit"
            /\ UNCHANGED <<outcome, printed>>
       ELSE /\ \E sorted \in SortValues(df) : df' = sorted
            /\ y' = y
            /\ printed' = printed \cup {"traceback"}
            /\ Exit("KeyError")
    /\ UNCHANGED <<inputs, disk, columns, date_col, path, num_previsoes, steps,
                   forecasts, workbook, i, assigned, saves>>

\* lines 78-104: SARIMAX(...).fit either returns or raises
Fit ==
    /\ pc = "fit"
    /\ stages' = Append(stages, "forecast")
    /\ \E ok \in BOOLEAN :
        IF ok
        THEN /\ printed' = printed \cup {"trained"}
             /\ pc' = "count"
             /\ outcome' = outcome
        ELSE /\ printed' = printed \cup {"fit_error"}
             /\ Exit("fit_error")
    /\ UNCHANGED <<inputs, disk, columns, date_col, df, path, y, num_previsoes,
                   steps, forecasts, workbook, i, assigned, saves>>

\* lines 107-121; NaN <= 0 is false
Count ==
    /\ pc = "count"
    /\ num_previsoes' = NumPrevisoes(IndexMax(y))
    /\ IF num_previsoes' # NaN /\ num_previsoes' <= 0
       THEN /\ printed' = printed \cup {"noop"}
            /\ Exit("noop")
       ELSE /\ pc' = "forecast"
            /\ UNCHANGED <<outcome, printed>>
    /\ UNCHANGED <<inputs, disk, columns, date_col, df, path, y, steps,
                   forecasts, workbook, i, assigned, saves, stages>>

\* lines 123-141; get_forecast(steps=NaN) raises
Forecast ==
    /\ pc = "forecast"
    /\ steps' = Append(steps, num_previsoes)
    /\ IF num_previsoes = NaN
       THEN /\ printed' = printed \cup {"traceback"}
            /\ Exit("forecast_raise")
            /\ UNCHANGED <<previsoes_series, previsoes_finais>>
       ELSE /\ previsoes_series' \in ForecastSeries(num_previsoes)
            /\ previsoes_finais' = RoundAll(previsoes_series')
            /\ pc' = "check"
            /\ UNCHANGED <<outcome, printed>>
    /\ UNCHANGED <<inputs, disk, columns, date_col, df, path, y, num_previsoes,
                   workbook, i, assigned, saves, stages>>

\* lines 143-157
Check ==
    /\ pc = "check"
    /\ stages' = Append(stages, "write")
    /\ IF Mismatch(previsoes_finais, linhas_alvo)
       THEN /\ printed' = printed \cup {"consistency_error"}
            /\ Exit("consistency_error")
       ELSE /\ pc' = "open"
            /\ UNCHANGED <<outcome, printed>>
    /\ UNCHANGED <<inputs, disk, columns, date_col, df, path, y, num_previsoes,
                   steps, forecasts, workbook, i, assigned, saves>>

\* lines 195-197: the handler of the try block of lines 159-193
Except ==
    /\ printed' = printed \cup {"write_error"}
    /\ Exit("write_error")

\* line 161
Open ==
    /\ pc = "open"
    /\ \E ok \in BOOLEAN :
        IF ok
        THEN /\ workbook' = disk
             /\ pc' = "sheet"
             /\ UNCHANGED <<outcome, printed>>
        ELSE /\ workbook' = workbook
             /\ Except
    /\ UNCHANGED <<inputs, disk, columns, date_col, df, path, y, num_previsoes,
                   steps, forecasts, i, assigned, saves, stages>>

\* lines 163-169
Sheet ==
    /\ pc = "sheet"
    /\ IF aba_alvo \in workbook.sheets
       THEN /\ pc' = "write"
            /\ UNCHANGED <<workbook, outcome, printed>>
       ELSE \E ok \in BOOLEAN :
            IF ok
            THEN /\ workbook' = CreateSheet(workbook, aba_alvo)
                 /\ printed' = printed \cup {"sheet_created"}
                 /\ pc' = "write"
                 /\ outcome' = outcome
            ELSE /\ workbook' = workbook
                 /\ Except
    /\ UNCHANGED <<inputs, disk, columns, date_col, df, path, y, num_previsoes,
                   steps, forecasts, i, assigned, saves, stages>>

\* lines 173-188: one iteration of the loop
WriteCell ==
    /\ pc = "write"
    /\ ~ LoopDone(i, previsoes_finais)
    /\ \E ok \in BOOLEAN :
        IF ok
        THEN /\ workbook' = SetCell(workbook, aba_alvo, TargetRow(i), coluna_alvo,
                                    previsoes_finais[i + 1])
             /\ assigned' = Append(assigned, <<aba_alvo, TargetRow(i), coluna_alvo>>)
             /\ i' = i + 1
             /\ UNCHANGED <<pc, outcome, printed>>
        ELSE /\ UNCHANGED <<workbook, assigned, i>>
             /\ Except
    /\ UNCHANGED <<inputs, disk, columns, date_col, df, path, y, num_previsoes,
                   steps, forecasts, saves, stages>>

\* lines 190-193; a save that raises leaves the file as it was or damaged
Save ==
    /\ pc = "write"
    /\ LoopDone(i, previsoes_finais)
    /\ saves' = saves + 1
    /\ \E ok \in BOOLEAN :
        IF ok
        THEN /\ disk' = workbook
             /\ printed' = printed \cup {"success"}
             /\ Exit("success")
        ELSE /\ disk' \in {disk, Corrupt}
             /\ Except
    /\ UNCHANGED <<inputs, columns, date_col, df, path, y, num_previsoes, steps,
                   forecasts, workbook, i, assigned, stages>>

Next ==
    \/ Load
    \/ Resolve
    \/ Normalize
    \/ Clean
    \/ Fit
    \/ Count
    \/ Forecast
    \/ Check
    \/ Open
    \/ Sheet
    \/ WriteCell
    \/ Save

Spec == Init /\ [][Next]_vars

\* ------------------------------------------------------------------------
\* Vocabulary of the properties
\* ------------------------------------------------------------------------
SixStages == <<"load", "resolve", "normalize", "clean", "forecast", "write">>

Entered(stage) == \E k \in 1..Len(stages) : stages[k] = stage

\* no stripped column name is "Data" or matches the heuristic
NoMatch(cols) ==
    /\ ~ InColumns(StrData, cols)
    /\ \A k \in 1..Len(cols) : ~ HeuristicMatch(cols[k])

\* a cell written as month/year
Conforms(raw) == Len(raw) = 2 /\ IsMonth(raw[1]) /\ IsYear(raw[2])

\* a comparison of two dates; NaT compares false with everything
DateLE(a, b) == a # NaT /\ b # NaT /\ a <= b

\* the cleaned series exists and its latest date falls in month m
LastMonthIs(m) ==
    \E k \in 1..Len(y) :
        /\ y[k].Data # NaT
        /\ MonthOf(y[k].Data) = m
        /\ \A j \in 1..Len(y) : y[j].Data # NaT => y[j].Data <= y[k].Data

NothingWritten == assigned = << >> /\ saves = 0 /\ disk = disk0

\* the Forecaster returned its points
ForecastReturned == steps # << >> /\ pc # "forecast" /\ outcome # "forecast_raise"

IsTarget(c) ==
    \E k \in 1..Len(previsoes_finais) : c = <<aba_alvo, 10 + k, 6>>

CellOf(wb, c) == IF c \in DOMAIN wb.cells THEN <<wb.cells[c]>> ELSE << >>

\* ------------------------------------------------------------------------
\* C1
\* ------------------------------------------------------------------------
\* C1: when no stripped column name is "Data" or matches the heuristic, the
\* run ends in the Configuration-error outcome, with its diagnostic printed,
\* and no stage after the column resolution is entered.
C1_NoMatchIsConfigError ==
    (Entered("resolve") /\ NoMatch(columns)) =>
        /\ outcome = "config_error"
        /\ "config_error" \in printed
        /\ stages = <<"load", "resolve">>

\* ------------------------------------------------------------------------
\* C2
\* ------------------------------------------------------------------------
\* C2: the resolved date column is "Data" whenever a column of that exact
\* name exists, wherever it stands; otherwise it is the first column, in
\* column order, whose lowercase name matches the heuristic.
C2_Selection ==
    Entered("resolve") =>
        /\ InColumns(StrData, columns) => date_col = StrData
        /\ (~ InColumns(StrData, columns) /\ ~ NoMatch(columns)) =>
              \E k \in 1..Len(columns) :
                  /\ date_col = columns[k]
                  /\ HeuristicMatch(columns[k])
                  /\ \A j \in 1..(k - 1) : ~ HeuristicMatch(columns[j])

\* "Data" is chosen although an earlier column matches the heuristic
C2_Witness ==
    /\ Entered("resolve")
    /\ Len(columns) >= 2
    /\ columns[1] # StrData
    /\ HeuristicMatch(columns[1])
    /\ date_col = StrData

\* ------------------------------------------------------------------------
\* C3
\* ------------------------------------------------------------------------
\* C3 as stated: the strict result is used if and only if every value of the
\* date column parses as month/year.
C3_StrictIffEveryCellConforms ==
    path # "none" => (path = "strict" <=> \A k \in 1..Len(table) : Conforms(table[k].raw))

\* C3 as amended: the strict result is used if and only if every non-empty
\* value parses as month/year (an empty cell becomes null without failing
\* the strict parse); otherwise the whole column is parsed leniently, so
\* every date of the frame comes from the one parser the run settled on.
C3_AllOrNothing ==
    path # "none" =>
        /\ path = "strict" <=>
              \A k \in 1..Len(table) : table[k].raw = << >> \/ Conforms(table[k].raw)
        /\ path = "strict" =>
              \A k \in 1..Len(df) :
                  df[k].Data = (IF table[df[k].id].raw = << >> THEN NaT
                                ELSE MkDate(table[df[k].id].raw[2], table[df[k].id].raw[1], 1))
        /\ path = "lenient" =>
              \A k \in 1..Len(df) : df[k].Data = LenientDate(table[df[k].id].raw)

\* a column with a conforming and a non-conforming value went the lenient way
C3_Witness ==
    /\ path = "lenient"
    /\ \E k \in 1..Len(table) : Conforms(table[k].raw)
    /\ \E k \in 1..Len(table) : table[k].raw # << >> /\ ~ Conforms(table[k].raw)
    /\ Len(df) = Len(table)

\* ------------------------------------------------------------------------
\* C4
\* ------------------------------------------------------------------------
\* C4: the series handed to the Forecaster has no row with a missing
\* quantity, has every input row whose quantity is present, and is
\* non-decreasing by date from its first to its last element.
C4_CleanedSeries ==
    Entered("forecast") =>
        /\ \A k \in 1..Len(y) : y[k].QNT # NoQnt
        /\ \A r \in 1..Len(table) :
              table[r].qnt # NoQnt => \E k \in 1..Len(y) : y[k].id = r
        /\ \A k \in 1..(Len(y) - 1) : DateLE(y[k].Data, y[k + 1].Data)

\* ------------------------------------------------------------------------
\* C5
\* ------------------------------------------------------------------------
\* C5 as stated, second half: every run whose last observed month is 12
\* ends in the no-op termination.
C5_DecemberAlwaysNoop ==
    (pc = "done" /\ LastMonthIs(12)) => outcome = "noop"

\* C5 as amended: with last observed month m the Forecaster is asked, at
\* most once, for exactly 12 - m steps; a run with m = 12 asks for no
\* forecast and writes and saves nothing, and it ends in the no-op
\* termination unless the model fit, which runs first, fails.
C5_ForecastCount ==
    \A m \in 1..12 :
        LastMonthIs(m) =>
            /\ Len(steps) <= 1
            /\ \A k \in 1..Len(steps) : steps[k] = 12 - m
            /\ (m < 12 /\ pc \in {"forecast", "check"}) => num_previsoes = 12 - m
            /\ m = 12 =>
                  /\ steps = << >>
                  /\ NothingWritten
                  /\ pc = "done" => outcome \in {"noop", "fit_error"}
                  /\ (pc = "done" /\ "trained" \in printed) =>
                        (outcome = "noop" /\ "noop" \in printed)

\* a forecast was requested after a last observed month other than August
C5_Witness ==
    /\ LastMonthIs(2)
    /\ steps = <<10>>

\* ------------------------------------------------------------------------
\* C6
\* ------------------------------------------------------------------------
\* C6: when the number of forecast points differs from 4, the run ends in
\* the Consistency-error outcome before the workbook is opened, and no cell
\* is assigned and nothing is saved in such a run.
C6_ConsistencyCheck ==
    (ForecastReturned /\ Len(previsoes_finais) # 4) =>
        /\ pc \in {"check", "done"}
        /\ workbook = NoBook
        /\ NothingWritten
        /\ pc = "done" =>
              (outcome = "consistency_error" /\ "consistency_error" \in printed)

\* three forecasts met four target rows
C6_Witness ==
    /\ outcome = "consistency_error"
    /\ Len(previsoes_finais) = 3

\* ------------------------------------------------------------------------
\* C7
\* ------------------------------------------------------------------------
\* C7: the workbook is saved at most once, and only after all K cell
\* assignments were applied in memory; when loading the workbook, creating
\* the sheet or a cell assignment fails, save is never called and the file
\* is as it was when the run started.
C7_WriterAtomicity ==
    /\ saves <= 1
    /\ saves = 1 =>
          /\ Len(assigned) = Len(previsoes_finais)
          /\ \A k \in 1..Len(previsoes_finais) :
                /\ assigned[k] = <<aba_alvo, 10 + k, 6>>
                /\ CellOf(workbook, <<aba_alvo, 10 + k, 6>>) = <<previsoes_finais[k]>>
    /\ saves = 0 => disk = disk0
    /\ (outcome = "write_error" /\ Len(assigned) < Len(previsoes_finais)) =>
          (saves = 0 /\ disk = disk0)

\* a cell assignment failed after another had been applied
C7_Witness ==
    /\ outcome = "write_error"
    /\ Len(assigned) = 2
    /\ saves = 0

\* ------------------------------------------------------------------------
\* C8
\* ------------------------------------------------------------------------
\* C8: after a successful run the cell at row 11 + i, column 6 of sheet
\* "graficos" holds the i-th forecast rounded to an integer nearest to it,
\* in forecast order, and every other cell of every sheet is as it was.
C8_Placement ==
    outcome = "success" =>
        /\ disk.valid
        /\ disk.sheets = disk0.sheets \cup {"graficos"}
        /\ Len(previsoes_series) = Len(previsoes_finais)
        /\ \A idx \in 0..(Len(previsoes_series) - 1) :
              LET c == <<"graficos", 11 + idx, 6>> IN
              /\ c \in DOMAIN disk.cells
              /\ 2 * disk.cells[c] - previsoes_series[idx + 1] \in {-1, 0, 1}
        /\ \A c \in (DOMAIN disk.cells) \cup (DOMAIN disk0.cells) :
              ~ IsTarget(c) => CellOf(disk, c) = CellOf(disk0, c)

\* a successful run on a workbook that had no sheet "graficos"
C8_Witness ==
    /\ outcome = "success"
    /\ ~ ("graficos" \in disk0.sheets)
    /\ previsoes_series = <<5, 8, 11, 14>>

\* ------------------------------------------------------------------------
\* C9
\* ------------------------------------------------------------------------
\* C9: the six stages run in order, none twice; a failure of a stage (an
\* unreadable sheet, no date column, no parseable date, a failed fit, a
\* count mismatch, a failed write or save) prints its diagnostic and ends
\* the run in that stage, and success is never reported in such a run.
C9_AbortOnFailure ==
    /\ Len(stages) <= Len(SixStages)
    /\ stages = SubSeq(SixStages, 1, Len(stages))
    /\ (Entered("resolve") /\ NoMatch(columns)) =>
          (pc = "done" /\ "config_error" \in printed /\ stages = SubSeq(SixStages, 1, 2))
    /\ outcome = "load_error" =>
          (pc = "done" /\ "load_error" \in printed /\ stages = SubSeq(SixStages, 1, 1))
    /\ outcome = "date_error" =>
          (pc = "done" /\ "date_error" \in printed /\ stages = SubSeq(SixStages, 1, 3))
    /\ outcome = "fit_error" =>
          (pc = "done" /\ "fit_error" \in printed /\ stages = SubSeq(SixStages, 1, 5))
    /\ outcome = "consistency_error" =>
          (pc = "done" /\ "consistency_error" \in printed /\ stages = SixStages)
    /\ outcome = "write_error" =>
          (pc = "done" /\ "write_error" \in printed /\ stages = SixStages)
    /\ outcome \notin {"running", "noop", "success"} => "success" \notin printed

\* ------------------------------------------------------------------------
\* C10
\* ------------------------------------------------------------------------
\* C10: with a Forecaster that returns as many points as it was asked for,
\* the workbook is opened, written or saved only when the last observed
\* month is 8; a run with last month in 1..7 or 9..11 ends in the
\* Consistency-error outcome with nothing written, and a run with last
\* month 12 writes nothing.
C10_OnlyAugustWrites ==
    /\ (pc \in {"open", "sheet", "write"} \/ outcome \in {"success", "write_error"}
            \/ assigned # << >> \/ saves > 0 \/ disk # disk0) => LastMonthIs(8)
    /\ \A m \in (1..11) \ {8} :
          (LastMonthIs(m) /\ ForecastReturned /\ pc = "done") =>
              (outcome = "consistency_error" /\ NothingWritten)
    /\ LastMonthIs(12) => NothingWritten

\* a run whose last observed month is November ended in the Consistency error
C10_Witness ==
    /\ LastMonthIs(11)
    /\ outcome = "consistency_error"
    /\ Len(previsoes_finais) = 1

====
